---- MODULE Spec2Model ----
(***************************************************************************)
(* Runtime support library of nix2js: the lazy core (Lazy / force), the    *)
(* scope module (mkScope / mkScopeWith), the import engine (import_ /      *)
(* importTail) and the operators and builtins of index.ts with the         *)
(* runtime's export.  Each component has its own next-state relation over  *)
(* the shared state; SpecLazy, SpecScope, SpecImport and SpecBuiltins run  *)
(* one component, SpecImportLive the import engine under fair reads.       *)
(***************************************************************************)
EXTENDS Integers, Sequences, FiniteSets, TLC

\* ------------------------------------------------------------------ bounds
MaxThunks == 2
MaxFuel == 8
MaxObjs == 3
MaxReq == 3

VARIABLES
    lz,       \* Lazy objects, by identity: [i |-> inner, iL |-> is-lazy flag]
    prog,     \* body of the function each Lazy was constructed with
    runs,     \* how often each of these functions has been executed
    rets,     \* values the evaluate() calls on each Lazy have returned
    reent,    \* an evaluate() call on a Lazy whose producer was running returned
    hung,     \* evaluate() is spinning in its while loop
    lastLz,   \* the last top-level operation on a Lazy and its outcome
    objs,     \* the scopes made so far, by identity
    lastSc,   \* the last operation on a scope and its outcome
    import_cache, \* the Map import_cache, by path
    tasks,    \* the calls of importTail, each an async function in flight or settled
    deferred, \* paths handed to import_ as promises, whose then-callback is pending
    reads,    \* fs.readFile calls issued, by path
    trans,    \* translate_inline_srcmap calls, by path
    evals,    \* module functions called, by path
    got,      \* what each call of import_ returned, in call order
    call      \* the operator or builtin call made on the idle runtime, with its outcome

lazyVars == <<lz, prog, runs, rets, reent, hung, lastLz>>
scopeVars == <<objs, lastSc>>
importVars == <<import_cache, tasks, deferred, reads, trans, evals, got>>
builtinVars == <<call>>
vars == <<lz, prog, runs, rets, reent, hung, lastLz, objs, lastSc,
          import_cache, tasks, deferred, reads, trans, evals, got, call>>

\* ------------------------------------------------------------------ values
\* A JavaScript value: its kind (typeof, with Lazy instances and undefined told
\* apart) and a number naming it (the number itself, the identity of a function,
\* of a Lazy or of an object).
Val(k, n) == [k |-> k, n |-> n]
Undefined == Val("undefined", 0)
Num(n) == Val("number", n)
Fn(id) == Val("function", id)
LazyRef(t) == Val("lazy", t)
TheAttrs == Val("object", 1)
Method == Val("function", 0)

Ret(v) == [k |-> "ret", v |-> v]
\* A throw of an error of class `e` ("Error", "TypeError").
Throw(e) == [k |-> "throw", v |-> Val(e, 0)]
Hang == [k |-> "hang", v |-> Undefined]
NoOut == [k |-> "none", v |-> Undefined]

\* `res instanceof Lazy`
IsLazy(v) == v.k = "lazy"

\* The object the "obj" producer returns: {a: 1, b: 2, i: 7}; every other key is
\* absent.  v[k] of a number or a function is undefined for these keys, and
\* v[k] of undefined throws a TypeError.
GetProp(v, k) ==
    IF v.k = "undefined" THEN Throw("TypeError")
    ELSE IF v = TheAttrs /\ k = "a" THEN Ret(Num(1))
    ELSE IF v = TheAttrs /\ k = "b" THEN Ret(Num(2))
    ELSE IF v = TheAttrs /\ k = "i" THEN Ret(Num(7))
    ELSE Ret(Undefined)

\* Lazy.constructor: this.i = inner; this.iL = typeof inner === "function".
LazyCtor(inner) == [i |-> inner, iL |-> (inner.k = "function")]

\* The bodies a producer function can have.
\*   count   () => { ref.i += 1; return ref.i; }
\*   obj     () => ({a: 1, b: 2, i: 7})
\*   undef   () => undefined
\*   throw   () => { throw Error() }
\*   flaky   () => { ref.i += 1; if (ref.i == 1) throw Error(); return ref.i; }
\*   lazy u  () => u                   (u a Lazy)
\*   force u () => force(u)            (as mkLazy builds them)
Bodies ==
    [op : {"count", "obj", "undef", "throw", "flaky"}, u : {0}]
        \cup [op : {"lazy", "force"}, u : 1..MaxThunks]

Thunks == DOMAIN lz

\* ------------------------------------------------------------- evaluation
\* The heap a synchronous evaluation threads through its calls.
Heap == [lz |-> lz, runs |-> runs, rets |-> rets, reent |-> reent, active |-> {}]

RECURSIVE EvaluateCall(_, _, _)
RECURSIVE EvalLoop(_, _, _)
RECURSIVE Apply(_, _, _)

\* force(value)
Force(h, v, fuel) ==
    IF IsLazy(v) THEN EvaluateCall(h, v.n, fuel) ELSE [h |-> h, out |-> Ret(v)]

\* this.i.apply(this.i, arguments): run the function `id`.
Apply(h, id, fuel) ==
    LET p == prog[id]
        h1 == [h EXCEPT !.runs[id] = @ + 1]
        n == h1.runs[id]
    IN CASE p.op = "count" -> [h |-> h1, out |-> Ret(Num(n))]
         [] p.op = "obj" -> [h |-> h1, out |-> Ret(TheAttrs)]
         [] p.op = "undef" -> [h |-> h1, out |-> Ret(Undefined)]
         [] p.op = "throw" -> [h |-> h1, out |-> Throw("Error")]
         [] p.op = "flaky" ->
                [h |-> h1, out |-> IF n = 1 THEN Throw("Error") ELSE Ret(Num(n))]
         [] p.op = "lazy" -> [h |-> h1, out |-> Ret(LazyRef(p.u))]
         [] p.op = "force" -> Force(h1, LazyRef(p.u), fuel)

\* The while loop of Lazy.evaluate, for the Lazy `t`.
EvalLoop(h, t, fuel) ==
    IF fuel = 0 THEN [h |-> h, out |-> Hang]
    ELSE IF ~h.lz[t].iL THEN [h |-> h, out |-> Ret(h.lz[t].i)]
    ELSE LET h1 == [h EXCEPT !.lz[t].iL = FALSE, !.active = @ \cup {t}]
             r == Apply(h1, h1.lz[t].i.n, fuel - 1)
             h2 == [r.h EXCEPT !.active = @ \ {t}]
         IN IF r.out.k # "ret" THEN [h |-> h2, out |-> r.out]
            ELSE IF IsLazy(r.out.v)
            THEN LET res == h2.lz[r.out.v.n]
                 IN EvalLoop([h2 EXCEPT !.lz[t] = [i |-> res.i, iL |-> res.iL]],
                             t, fuel - 1)
            ELSE [h |-> [h2 EXCEPT !.lz[t].i = r.out.v], out |-> Ret(r.out.v)]

\* One call of t.evaluate(), with what it returned noted.
EvaluateCall(h, t, fuel) ==
    LET r == EvalLoop(h, t, fuel)
    IN IF r.out.k = "ret"
       THEN [h |-> [r.h EXCEPT !.rets[t] = @ \cup {r.out.v},
                               !.reent = @ \/ (t \in h.active)],
             out |-> r.out]
       ELSE r

\* LazyHandler.get: `prop in target` holds for the Lazy's own fields and for
\* what it inherits from Lazy.prototype.
InTarget(k) == k \in {"i", "iL", "evaluate", "map", "constructor"}

TargetProp(h, t, k) ==
    CASE k = "i" -> h.lz[t].i
      [] k = "iL" -> Val("boolean", IF h.lz[t].iL THEN 1 ELSE 0)
      [] OTHER -> Method

LazyGet(h, t, k) ==
    IF InTarget(k) THEN [h |-> h, out |-> Ret(TargetProp(h, t, k))]
    ELSE LET r == EvaluateCall(h, t, MaxFuel)
         IN IF r.out.k = "ret" THEN [h |-> r.h, out |-> GetProp(r.out.v, k)]
            ELSE r

\* ---------------------------------------------------------------- actions
PropKeys == {"a", "c", "i"}

\* Every Lazy a producer names has been constructed.
Closed == \A t \in Thunks : prog[t].op \in {"lazy", "force"} => prog[t].u \in Thunks

\* The outcome of a top-level call.  A call that spins forever never returns:
\* nothing it did is observed, and nothing runs after it.
Commit(r, op, t, k) ==
    /\ IF r.out.k = "hang"
       THEN /\ hung' = TRUE
            /\ UNCHANGED <<lz, runs, rets, reent>>
       ELSE /\ lz' = r.h.lz
            /\ runs' = r.h.runs
            /\ rets' = r.h.rets
            /\ reent' = r.h.reent
            /\ UNCHANGED hung
    /\ lastLz' = [op |-> op, t |-> t, k |-> k, out |-> r.out]
    /\ UNCHANGED prog
    /\ UNCHANGED <<scopeVars, importVars, builtinVars>>

\* new Lazy(function () { ... })
NewLazy(body) ==
    /\ ~hung
    /\ Len(lz) < MaxThunks
    /\ lz' = Append(lz, LazyCtor(Fn(Len(lz) + 1)))
    /\ prog' = Append(prog, body)
    /\ runs' = Append(runs, 0)
    /\ rets' = Append(rets, {})
    /\ lastLz' = [op |-> "new", t |-> Len(lz) + 1, k |-> "", out |-> NoOut]
    /\ UNCHANGED <<reent, hung>>
    /\ UNCHANGED <<scopeVars, importVars, builtinVars>>

\* force(t), t.evaluate()
ForceThunk(t) ==
    /\ ~hung
    /\ Closed
    /\ Commit(EvaluateCall(Heap, t, MaxFuel), "force", t, "")

\* t[k]
ReadProp(t, k) ==
    /\ ~hung
    /\ Closed
    /\ Commit(LazyGet(Heap, t, k), "get", t, k)

InitLazy ==
    /\ lz = <<>>
    /\ prog = <<>>
    /\ runs = <<>>
    /\ rets = <<>>
    /\ reent = FALSE
    /\ hung = FALSE
    /\ lastLz = [op |-> "init", t |-> 0, k |-> "", out |-> NoOut]

NextLazy ==
    \/ \E body \in Bodies : NewLazy(body)
    \/ \E t \in Thunks : ForceThunk(t)
    \/ \E t \in Thunks, k \in PropKeys : ReadProp(t, k)


\* ------------------------------------------------------------------ scopes
\* Property keys are strings: an ordinary name and the reserved name.  (The two
\* symbol-keyed getters, allKeys and extractScope, are read with operators.)
ScopeKeys == {"a", "__proto__"}
Values == {1, 2}
\* own[k] = Absent: the target has no own property k; a lookup that finds
\* nothing yields undefined, written Absent as well.
Absent == 0

\* mkScope(orig): current = Object.create(orig) with the two symbol getters
\* defined on it, behind a Proxy with a set trap.  parent = 0 is null.
MkScopeObj(orig) ==
    [kind |-> "scope", parent |-> orig, layers |-> <<>>,
     own |-> [k \in ScopeKeys |-> Absent]]

\* mkScopeWith(...objs): a Proxy over Object.create(null, {[allKeys]: getter}),
\* which never gets another own property.
MkScopeWithObj(layers) ==
    [kind |-> "with", parent |-> 0, layers |-> layers,
     own |-> [k \in ScopeKeys |-> Absent]]

\* Object.prototype.hasOwnProperty.call(target, key)
HasOwn(o, k) == o.own[k] # Absent

RECURSIVE HasProp(_, _, _)
\* `key in obj`: ordinary objects walk the prototype chain; the read-only
\* proxy answers with handler.has (its target holds only the symbol).
HasProp(os, s, k) ==
    IF s = 0 THEN FALSE
    ELSE IF os[s].kind = "with"
    THEN \E j \in 1..Len(os[s].layers) : HasProp(os, os[s].layers[j], k)
    ELSE HasOwn(os[s], k) \/ HasProp(os, os[s].parent, k)

RECURSIVE Lookup(_, _, _)
\* handler.get with the last layer that has the key taken instead of the first
LookupLastLayer(os, s, k) ==
    IF s = 0 THEN Absent
    ELSE IF os[s].kind = "with"
    THEN LET hits == {j \in 1..Len(os[s].layers) : HasProp(os, os[s].layers[j], k)}
         IN IF hits = {} THEN Absent
            ELSE Lookup(os, os[s].layers[CHOOSE j \in hits : \A i \in hits : j >= i], k)
    ELSE IF os[s].own[k] # Absent THEN os[s].own[k]
    ELSE Lookup(os, os[s].parent, k)

\* obj[key] for a string key: an own property, else the prototype chain; the
\* read-only proxy answers with handler.get, the first layer that has the key.
Lookup(os, s, k) ==
    IF s = 0 THEN Absent
    ELSE IF os[s].kind = "with"
    THEN LET hits == {j \in 1..Len(os[s].layers) : HasProp(os, os[s].layers[j], k)}
         IN IF hits = {} THEN Absent
            ELSE Lookup(os, os[s].layers[CHOOSE j \in hits : \A i \in hits : j <= i], k)
    ELSE IF os[s].own[k] # Absent THEN os[s].own[k]
    ELSE Lookup(os, os[s].parent, k)

\* Object.keys(obj): the own enumerable string keys.  The bindings of a scope
\* are enumerable; the target of the read-only proxy has none, and null none.
ObjectKeys(os, s) ==
    IF s = 0 \/ os[s].kind = "with" THEN <<>>
    ELSE SelectSeq(<<"a", "__proto__">>, LAMBDA k : HasOwn(os[s], k))

\* filter(onlyUnique): the first occurrence of each element is kept
OnlyUnique(xs) ==
    LET F[i \in 0..Len(xs)] ==
            IF i = 0 THEN <<>>
            ELSE IF \E j \in 1..(i - 1) : xs[j] = xs[i] THEN F[i - 1]
            ELSE Append(F[i - 1], xs[i])
    IN F[Len(xs)]

RECURSIVE AllKeys(_, _)
RECURSIVE FlatKeys(_, _, _)
\* objs.map((obj) => obj[allKeys]).flat()
FlatKeys(os, layers, j) ==
    IF j > Len(layers) THEN <<>>
    ELSE AllKeys(os, layers[j]) \o FlatKeys(os, layers, j + 1)
\* sc[allKeys]: the getter of mkScope, Object.keys(current) with
\* Object.keys(orig), and the getter of mkScopeWith, the allKeys of its layers.
AllKeys(os, s) ==
    IF os[s].kind = "with" THEN OnlyUnique(FlatKeys(os, os[s].layers, 1))
    ELSE OnlyUnique(ObjectKeys(os, s) \o ObjectKeys(os, os[s].parent))

\* sc[extractScope] of a writable scope: fixObjectProto(current), the own
\* enumerable properties of current on a new object without a prototype.
ExtractScope(o) == [k \in {x \in ScopeKeys : HasOwn(o, x)} |-> o.own[k]]

\* What a trap or an ordinary internal method does: it returns true or false,
\* or throws; `os` is the heap it leaves.
TrapRet(os, b) == [os |-> os, ret |-> IF b THEN "true" ELSE "false", msg |-> ""]
TrapThrow(os, kind, msg) == [os |-> os, ret |-> kind, msg |-> msg]

\* throw new ScopeError("..." + key + "...")
WithKey(os, kind, pre, k, post) == TrapThrow(os, kind, pre \o k \o post)

\* The set trap with the binding overwritten on a second assignment.
SetTrapOverwrite(os, s, k, v) ==
    IF k = "__proto__" THEN TrapThrow(os, "ScopeError", "Tried modifying prototype")
    ELSE TrapRet([os EXCEPT ![s].own[k] = v], TRUE)

\* The set trap without its guard on the reserved name.
SetTrapNoProtoGuard(os, s, k, v) ==
    IF ~HasOwn(os[s], k)
    THEN TrapRet([os EXCEPT ![s].own[k] = v], TRUE)
    ELSE TrapRet(os, FALSE)

\* The set trap testing `key in target` where it has hasOwnProperty.
SetTrapInherited(os, s, k, v) ==
    IF k = "__proto__" THEN TrapThrow(os, "ScopeError", "Tried modifying prototype")
    ELSE IF ~HasProp(os, s, k)
    THEN TrapRet([os EXCEPT ![s].own[k] = v], TRUE)
    ELSE TrapRet(os, FALSE)

\* The set trap of mkScope.
SetTrap(os, s, k, v) ==
    IF k = "__proto__" THEN TrapThrow(os, "ScopeError", "Tried modifying prototype")
    ELSE IF ~HasOwn(os[s], k)
    THEN TrapRet([os EXCEPT ![s].own[k] = v], TRUE)
    ELSE TrapRet(os, FALSE)

\* readOnlyHandler.set
ReadOnlySet(os, s, k, v) ==
    WithKey(os, "ScopeError", "Tried overwriting key '", k, "' in read-only scope")

\* `key in target` for the target of the read-only proxy, which is
\* Object.create(null, {[allKeys]: ...}): it has no string-keyed property, and
\* the `in` is on the target, not on the proxy or its layers.
InWithTarget(os, s, k) == os[s].own[k] # Absent

\* readOnlyHandler.deleteProperty
ReadOnlyDelete(os, s, k) ==
    IF InWithTarget(os, s, k)
    THEN WithKey(os, "ScopeError", "Tried removing key '", k, "' from read-only scope")
    ELSE TrapRet(os, FALSE)

\* readOnlyHandler.defineProperty
ReadOnlyDefine(os, s, k, v) ==
    WithKey(os, "ScopeError", "Tried modifying property '", k, "' on read-only scope")

\* delete on a target whose bindings were defined configurable
OrdinaryDeleteRemoves(os, s, k) == TrapRet([os EXCEPT ![s].own[k] = Absent], TRUE)

\* delete on a writable scope: no trap, the target's own bindings are
\* non-configurable, an absent key deletes to true.
OrdinaryDelete(os, s, k) == TrapRet(os, ~HasOwn(os[s], k))

\* What the caller sees.  An assignment or a delete whose internal method
\* returned false ("false") throws the engine's TypeError in strict-mode code
\* (the test of mkScope expects "'set' on proxy: trap returned falsish") and does
\* nothing in sloppy-mode code; it is never a ScopeError.
Outcome(r) ==
    CASE r.ret = "true" -> [out |-> "ok", msg |-> ""]
      [] r.ret = "false" -> [out |-> "false", msg |-> "trap returned falsish"]
      [] OTHER -> [out |-> r.ret, msg |-> r.msg]

OkOut == [out |-> "ok", msg |-> ""]

Done(op, s, k, v, o) ==
    /\ lastSc' = [op |-> op, s |-> s, k |-> k, v |-> v, out |-> o.out, msg |-> o.msg]
    /\ UNCHANGED <<lazyVars, importVars, builtinVars>>

Scopes == DOMAIN objs

\* sc = mkScope(orig)
MkScope(orig) ==
    /\ Len(objs) < MaxObjs
    /\ objs' = Append(objs, MkScopeObj(orig))
    /\ Done("mkScope", Len(objs) + 1, "", 0, OkOut)

\* sc = mkScopeWith(...layers)
MkScopeWith(layers) ==
    /\ Len(objs) < MaxObjs
    /\ objs' = Append(objs, MkScopeWithObj(layers))
    /\ Done("mkScopeWith", Len(objs) + 1, "", 0, OkOut)

\* sc[k] = v
ScopeSet(s, k, v) ==
    LET r == IF objs[s].kind = "with" THEN ReadOnlySet(objs, s, k, v)
             ELSE SetTrap(objs, s, k, v)
    IN /\ objs' = r.os
       /\ Done("set", s, k, v, Outcome(r))

\* delete sc[k]
ScopeDelete(s, k) ==
    LET r == IF objs[s].kind = "with" THEN ReadOnlyDelete(objs, s, k)
             ELSE OrdinaryDelete(objs, s, k)
    IN /\ objs' = r.os
       /\ Done("delete", s, k, 0, Outcome(r))

\* Object.defineProperty(sc, k, {value: v}) on a read-only scope
ScopeDefine(s, k, v) ==
    /\ objs[s].kind = "with"
    /\ LET r == ReadOnlyDefine(objs, s, k, v)
       IN /\ objs' = r.os
          /\ Done("define", s, k, v, Outcome(r))

\* The argument lists of mkScopeWith: none, one or two distinct scopes.
LayerLists ==
    {<<>>} \cup {<<x>> : x \in Scopes}
           \cup {<<p[1], p[2]>> : p \in {q \in Scopes \X Scopes : q[1] # q[2]}}

InitScope ==
    /\ objs = <<>>
    /\ lastSc = [op |-> "init", s |-> 0, k |-> "", v |-> 0, out |-> "ok", msg |-> ""]

NextScope ==
    \/ \E orig \in {0} \cup Scopes : MkScope(orig)
    \/ \E layers \in LayerLists : MkScopeWith(layers)
    \/ \E s \in Scopes, k \in ScopeKeys, v \in Values : ScopeSet(s, k, v)
    \/ \E s \in Scopes, k \in ScopeKeys : ScopeDelete(s, k)
    \/ \E s \in Scopes, k \in ScopeKeys, v \in Values : ScopeDefine(s, k, v)


\* ----------------------------------------------------------- import engine
\* The file system the host reads: a source file, a directory with a
\* default.nix, a file the translator rejects, a path that does not exist, and
\* two source files that import each other.
Paths == {"/f.nix", "/d", "/d/default.nix", "/bad.nix", "/nx", "/a.nix", "/b.nix"}
FileKind(p) ==
    CASE p \in {"/f.nix", "/d/default.nix", "/bad.nix", "/a.nix", "/b.nix"} -> "file"
      [] p = "/d" -> "dir"
      [] OTHER -> "none"
\* translate_inline_srcmap throws on a source it cannot parse.
Translates(p) == p # "/bad.nix"

\* path.resolve(real_path, 'default.nix')
DefaultNix(p) == p \o "/default.nix"

\* Cache entries and what import_ hands back: nothing, the promise of an
\* importTail call (n its number), or a module value (the n-th evaluation of
\* file f: every call of the module function builds a new value).
NoEntry == [k |-> "none", f |-> "", n |-> 0]
PromiseOf(id) == [k |-> "promise", f |-> "", n |-> id]
ModuleValue(f, n) == [k |-> "value", f |-> f, n |-> n]
Thrown == [k |-> "thrown", f |-> "", n |-> 0]

\* How an importTail call has settled.
Pending == [k |-> "pending", f |-> "", n |-> 0]
Fulfilled(f, n) == [k |-> "ok", f |-> f, n |-> n]
Rejected(kind) == [k |-> "err", f |-> kind, n |-> 0]

\* `throw NixEvalError(e.stack)`: the module imports nixBlti as a namespace and
\* binds no NixEvalError, so evaluating the throw raises a ReferenceError.
ThrowNixEvalError == Rejected("ReferenceError")

\* import_cache.has(xpath)
CacheHasNever(c, xpath) == FALSE

\* a has that does not count the promise of a failed importTail
CacheHasUnlessFailed(c, xpath) ==
    /\ c[xpath].k # "none"
    /\ ~(c[xpath].k = "promise" /\ tasks[c[xpath].n].res.k = "err")

CacheHas(c, xpath) == c[xpath].k # "none"

\* importTail(real_path) up to its first await: fs.readFile is called.
StartTail(xpath) ==
    [xpath |-> xpath, real_path |-> xpath, pc |-> "read1", res |-> Pending]

\* The body of import_ for a string path: the state it leaves and what it
\* returns.
ImportBody(xpath) ==
    LET miss == ~CacheHas(import_cache, xpath)
        id == Len(tasks) + 1
        c1 == IF miss THEN [import_cache EXCEPT ![xpath] = PromiseOf(id)]
              ELSE import_cache
    IN /\ import_cache' = c1
       /\ tasks' = IF miss THEN Append(tasks, StartTail(xpath)) ELSE tasks
       /\ reads' = IF miss THEN [reads EXCEPT ![xpath] = @ + 1] ELSE reads
       /\ got' = Append(got, [xpath |-> xpath, h |-> c1[xpath]])
       /\ UNCHANGED <<trans, evals>>

NumCalls == Len(got) + Cardinality(deferred)

\* import_(xpath) with a string
Import(xpath) ==
    /\ NumCalls < MaxReq
    /\ ImportBody(xpath)
    /\ UNCHANGED deferred
    /\ UNCHANGED <<lazyVars, scopeVars, builtinVars>>

\* import_(xpath) with a promise of a path: xpath.then(import_)
ImportPromise(xpath) ==
    /\ NumCalls < MaxReq
    /\ xpath \notin deferred
    /\ deferred' = deferred \cup {xpath}
    /\ UNCHANGED <<import_cache, tasks, reads, trans, evals, got>>
    /\ UNCHANGED <<lazyVars, scopeVars, builtinVars>>

\* the then-callback: import_ with the path the promise resolved to
ImportThen(xpath) ==
    /\ xpath \in deferred
    /\ deferred' = deferred \ {xpath}
    /\ ImportBody(xpath)
    /\ UNCHANGED <<lazyVars, scopeVars, builtinVars>>

\* import_(xpath) with an Error: it is thrown
ImportError ==
    /\ NumCalls < MaxReq
    /\ got' = Append(got, [xpath |-> "", h |-> Thrown])
    /\ UNCHANGED <<import_cache, tasks, deferred, reads, trans, evals>>
    /\ UNCHANGED <<lazyVars, scopeVars, builtinVars>>

\* The path a module's value imports inside a thunk, as nixRt.export has
\* resolved it: /a.nix names ./b.nix (Relative, against its directory /) and
\* /b.nix names /a.nix (Absolute). The other modules import nothing.
NoImport == ""
Imports(p) ==
    CASE p = "/a.nix" -> "/" \o "b.nix"
      [] p = "/b.nix" -> "/a.nix"
      [] OTHER -> NoImport

\* A thunk of module p's value is forced and calls nixRt.import, which is
\* import_. The thunk exists once the module function of p has run, and the
\* import of p settles in the step that runs it.
ForceImport(p) ==
    /\ evals[p] >= 1
    /\ Imports(p) # NoImport
    /\ NumCalls < MaxReq
    /\ ImportBody(Imports(p))
    /\ UNCHANGED deferred
    /\ UNCHANGED <<lazyVars, scopeVars, builtinVars>>

\* The second try block of importTail, run with the file's text: translate,
\* build the module function, call it, store the value in the cache.
TranslateEval(id, real_path) ==
    /\ reads' = reads
    /\ trans' = [trans EXCEPT ![real_path] = @ + 1]
    /\ IF Translates(real_path)
       THEN LET n == evals[real_path] + 1
            IN /\ evals' = [evals EXCEPT ![real_path] = n]
               /\ import_cache' = [import_cache EXCEPT ![real_path] = ModuleValue(real_path, n)]
               /\ tasks' = [tasks EXCEPT ![id].pc = "done", ![id].real_path = real_path,
                                         ![id].res = Fulfilled(real_path, n)]
       ELSE /\ tasks' = [tasks EXCEPT ![id].pc = "done", ![id].real_path = real_path,
                                      ![id].res = ThrowNixEvalError]
            /\ UNCHANGED <<evals, import_cache>>

\* An awaited fs.readFile settles and importTail runs on to its next await or
\* to its end.
ReadDone(id) ==
    LET t == tasks[id]
        kind == FileKind(t.real_path)
    IN /\ id \in DOMAIN tasks
       /\ t.pc \in {"read1", "read2"}
       /\ CASE kind = "file" -> TranslateEval(id, t.real_path)
            [] kind = "dir" /\ t.pc = "read1" ->
                 \* 'illegal operation on a directory': read default.nix in it
                 /\ tasks' = [tasks EXCEPT ![id].pc = "read2",
                                           ![id].real_path = DefaultNix(t.real_path)]
                 /\ reads' = [reads EXCEPT ![DefaultNix(t.real_path)] = @ + 1]
                 /\ UNCHANGED <<import_cache, trans, evals>>
            [] kind = "none" /\ t.pc = "read1" ->
                 /\ tasks' = [tasks EXCEPT ![id].pc = "done", ![id].res = ThrowNixEvalError]
                 /\ UNCHANGED <<import_cache, reads, trans, evals>>
            [] OTHER ->
                 \* the read inside the catch block fails: its error escapes
                 /\ tasks' = [tasks EXCEPT ![id].pc = "done", ![id].res = Rejected("Error")]
                 /\ UNCHANGED <<import_cache, reads, trans, evals>>
       /\ UNCHANGED <<deferred, got>>
       /\ UNCHANGED <<lazyVars, scopeVars, builtinVars>>

InitImport ==
    /\ import_cache = [p \in Paths |-> NoEntry]
    /\ tasks = <<>>
    /\ deferred = {}
    /\ reads = [p \in Paths |-> 0]
    /\ trans = [p \in Paths |-> 0]
    /\ evals = [p \in Paths |-> 0]
    /\ got = <<>>

NextImport ==
    \/ \E xpath \in Paths : Import(xpath)
    \/ \E xpath \in Paths : ImportPromise(xpath)
    \/ \E xpath \in Paths : ImportThen(xpath)
    \/ ImportError
    \/ \E id \in DOMAIN tasks : ReadDone(id)
    \/ \E p \in Paths : ForceImport(p)

\* What awaiting a returned handle gives, once it has settled.
Resolve(h) ==
    CASE h.k = "promise" -> tasks[h.n].res
      [] h.k = "value" -> Fulfilled(h.f, h.n)
      [] OTHER -> Rejected("thrown")

Settled(h) == Resolve(h).k # "pending"

\* ------------------------------------------------- operators and builtins
\* One call of an operator or builtin of index.ts, made with arguments the
\* caller built: its name, its arguments and how the promise it returned
\* settled.
NoCall == [op |-> "none", args |-> <<>>, out |-> NoOut]
Idle == call = NoCall

\* How an awaited operand settles: with a value, or rejected with an error of a
\* class and a message.
Resolved(v) == [k |-> "ok", v |-> v]
Raised(cls, msg) == [k |-> "err", cls |-> cls, msg |-> msg]

\* A call made on the idle runtime: its outcome is recorded.
Called(op, args, out) ==
    /\ call' = [op |-> op, args |-> args, out |-> out]
    /\ UNCHANGED <<lazyVars, scopeVars, importVars>>

\* The caller drops the result; the runtime is idle again.
Return ==
    /\ ~Idle
    /\ call' = NoCall
    /\ UNCHANGED <<lazyVars, scopeVars, importVars>>

\* Values of the runtime, by their typeof and, for objects, what they are.
VUndef == [t |-> "undefined", v |-> 0]
VNull == [t |-> "null", v |-> 0]
VBool(b) == [t |-> "boolean", v |-> b]
VNum(n) == [t |-> "number", v |-> n]
VStr(x) == [t |-> "string", v |-> x]
VList(xs) == [t |-> "list", v |-> xs]
VAttrs(f) == [t |-> "attrs", v |-> f]

\* The error classes: those of index.ts, the engine's, the one webassert
\* throws, and a thrown value that is no object (throw "boo").
ErrorClasses ==
    {"NixEvalError", "NixAbortError", "ScopeError", "TypeError", "RangeError",
     "AssertionError", "Error"}
Primitive == "string"
\* typeof e === "object" && e instanceof cls; every class extends Error directly.
InstanceOf(e, cls) ==
    /\ e.cls \in ErrorClasses
    /\ (e.cls = cls \/ cls = "Error")

\* Messages, as the pieces a prefix test can tell apart: the engine's message
\* for a property read on undefined and on null, and one of the library's own.
MsgUndefined == <<"Cannot read properties of undefined", " ", "(reading 'a')">>
MsgNull == <<"Cannot read properties of null", " ", "(reading 'a')">>
MsgOther == <<"boo">>
Messages == {MsgUndefined, MsgNull, MsgOther}
\* e.message.startsWith(prefix)
StartsWith(msg, prefix) ==
    /\ Len(msg) >= Len(prefix)
    /\ SubSeq(msg, 1, Len(prefix)) = prefix

\* What an operand handed to a builtin settles to when it is awaited.
Operands ==
    {Resolved(v) : v \in {VUndef, VNull, VBool(FALSE), VNum(1)}}
        \cup {Raised(c, m) : c \in ErrorClasses \cup {Primitive}, m \in Messages}

\* fixObjectProto({ value, success })
TryEvalResult(value, success) ==
    VAttrs([value |-> value, success |-> VBool(success)])

\* tryEval that catches whatever was thrown
TryEvalCatchAll(e) ==
    IF e.k = "ok" THEN Resolved(TryEvalResult(e.v, TRUE))
    ELSE Resolved(TryEvalResult(VBool(FALSE), FALSE))

\* tryEval: await e; a NixEvalError gives {value: false, success: false}, any
\* other thrown value is thrown again.
TryEval(e) ==
    IF e.k = "ok" THEN Resolved(TryEvalResult(e.v, TRUE))
    ELSE IF InstanceOf(e, "NixEvalError")
         THEN Resolved(TryEvalResult(VBool(FALSE), FALSE))
         ELSE e

CallTryEval ==
    /\ Idle
    /\ \E e \in Operands : Called("tryEval", <<e>>, TryEval(e))

\* The prefix orDefault looks for in a TypeError's message.
MissingAttrPrefix == <<"Cannot read properties of undefined", " ">>

\* orDefault that falls back on every TypeError
OrDefaultAnyTypeError(selopf, dflf) ==
    IF selopf.k = "err"
    THEN IF InstanceOf(selopf, "TypeError")
         THEN [out |-> dflf, dflf |-> TRUE]
         ELSE [out |-> selopf, dflf |-> FALSE]
    ELSE IF selopf.v = VUndef THEN [out |-> dflf, dflf |-> TRUE]
         ELSE [out |-> selopf, dflf |-> FALSE]

\* orDefault(selopf, dflf): how the returned promise settles, and whether dflf
\* was awaited (a PLazy runs only when it is awaited).
OrDefault(selopf, dflf) ==
    IF selopf.k = "err"
    THEN IF InstanceOf(selopf, "TypeError") /\ StartsWith(selopf.msg, MissingAttrPrefix)
         THEN [out |-> dflf, dflf |-> TRUE]
         ELSE [out |-> selopf, dflf |-> FALSE]
    ELSE IF selopf.v = VUndef THEN [out |-> dflf, dflf |-> TRUE]
         ELSE [out |-> selopf, dflf |-> FALSE]

CallOrDefault ==
    /\ Idle
    /\ \E selopf \in Operands, dflf \in Operands :
           Called("orDefault", <<selopf, dflf>>, OrDefault(selopf, dflf))

VLambda == [t |-> "function", v |-> 0]

\* typeof x
TypeOf(x) == IF x.t \in {"list", "attrs", "null"} THEN "object" ELSE x.t

\* fmt_fname
FmtFname(fname) ==
    IF fname \in {"+", "-", "*", "/", "<", ">"} THEN "operator " \o fname ELSE fname

TypeErr(text) == Raised("TypeError", <<text>>)

\* The own enumerable properties Object.assign copies from a source: those of
\* an attr-set, the index keys of an array or of a string, none of null or of
\* another primitive.
IndexKey(i) == IF i = 1 THEN "0" ELSE IF i = 2 THEN "1" ELSE "2"
OwnProps(x) ==
    CASE x.t = "attrs" -> x.v
      [] x.t = "list" -> [k \in {IndexKey(i) : i \in DOMAIN x.v} |->
                             x.v[CHOOSE i \in DOMAIN x.v : IndexKey(i) = k]]
      [] x.t = "string" ->
           \* a string source gives its characters; exact for the strings of
           \* at most one character that reach Object.assign here
           IF x.v = "" THEN <<>> ELSE [k \in {"0"} |-> VStr(x.v)]
      [] OTHER -> <<>>

\* Object.assign(target, src) on the properties of the target
Assign(target, src) ==
    [k \in DOMAIN target \cup DOMAIN src |->
        IF k \in DOMAIN src THEN src[k] ELSE target[k]]

\* fixObjectProto(a, b): Object.assign(Object.create(null), a, b)
FixObjectProto(a, b) == VAttrs(Assign(Assign(<<>>, OwnProps(a)), OwnProps(b)))

\* req_type(fname, x, xptype): the TypeError it throws
ReqType(fname, x, xptype) ==
    TypeErr(FmtFname(fname) \o ": invalid input type (" \o TypeOf(x)
                \o "), expected (" \o xptype \o ")")

\* The operators binop_helper wraps, by their key in nixOp.
TypedOps ==
    {"Concat", "Update", "Add", "Sub", "Mul", "Div", "And", "Implication", "Or",
     "Less", "LessOrEq", "More", "MoreOrEq"}
Fname(op) ==
    CASE op = "Concat" -> "operator ++" [] op = "Update" -> "operator //"
      [] op = "Add" -> "+" [] op = "Sub" -> "-" [] op = "Mul" -> "*" [] op = "Div" -> "/"
      [] op = "And" -> "&&" [] op = "Implication" -> "->" [] op = "Or" -> "||"
      [] op = "Less" -> "<" [] op = "LessOrEq" -> "<=" [] op = "More" -> ">"
      [] op = "MoreOrEq" -> ">="

\* The function f that binop_helper calls once typeof a === typeof b.
OpBody(op, a, b) ==
    CASE op = "Concat" ->
           IF TypeOf(a) # "object"
           THEN TypeErr("operator ++: invalid input type (" \o TypeOf(a) \o ")")
           ELSE IF a.t # "list"
           THEN \* a.concat is not a function, or a is null
                TypeErr("a.concat is not a function")
           ELSE \* Array.prototype.concat spreads an array and appends anything else
                Resolved(VList(a.v \o (IF b.t = "list" THEN b.v ELSE <<b>>)))
      [] op = "Update" ->
           IF TypeOf(a) # "object"
           THEN TypeErr("operator //: invalid input type (" \o TypeOf(a) \o ")")
           ELSE Resolved(FixObjectProto(a, b))
      [] op = "Add" ->
           IF TypeOf(a) = "number" THEN Resolved(VNum(a.v + b.v))
           ELSE IF TypeOf(a) = "string" THEN Resolved(VStr(a.v \o b.v))
           ELSE TypeErr("operator +: invalid input type (" \o TypeOf(a) \o ")")
      [] op \in {"Sub", "Mul", "Div", "Less", "LessOrEq", "More", "MoreOrEq"} ->
           IF TypeOf(a) # "number" THEN ReqType(Fname(op), a, "number")
           ELSE (CASE op = "Sub" -> Resolved(VNum(a.v - b.v))
                  [] op = "Mul" -> Resolved(VNum(a.v * b.v))
                  [] op = "Div" -> IF b.v = 0
                                   THEN Raised("RangeError", <<"Division by zero">>)
                                   ELSE \* exact for the divisor 1 that is drawn
                                        Resolved(VNum(a.v \div b.v))
                  [] op = "Less" -> Resolved(VBool(a.v < b.v))
                  [] op = "LessOrEq" -> Resolved(VBool(a.v <= b.v))
                  [] op = "More" -> Resolved(VBool(a.v > b.v))
                  [] op = "MoreOrEq" -> Resolved(VBool(a.v >= b.v)))
      [] op \in {"And", "Implication", "Or"} ->
           IF TypeOf(a) # "boolean" THEN ReqType(Fname(op), a, "boolean")
           ELSE (CASE op = "And" -> Resolved(VBool(a.v /\ b.v))
                  [] op = "Implication" -> Resolved(VBool(~a.v \/ b.v))
                  [] op = "Or" -> Resolved(VBool(a.v \/ b.v)))

\* binop_helper(fname, f)(a, b) on awaited operands
BinopHelper(op, a, b) ==
    IF TypeOf(a) = TypeOf(b) THEN OpBody(op, a, b)
    ELSE TypeErr(FmtFname(Fname(op)) \o ": given types mismatch (" \o TypeOf(a)
                    \o " != " \o TypeOf(b) \o ")")

\* The forced operands an operator is called with.
OpValues ==
    {VNum(0), VNum(1), VStr("a"), VBool(TRUE), VBool(FALSE), VNull, VLambda,
     VList(<<>>), VList(<<VNum(1)>>), VAttrs(<<>>), VAttrs([a |-> VNum(1)])}

CallBinop ==
    /\ Idle
    /\ \E op \in TypedOps, a \in OpValues, b \in OpValues :
           Called(op, <<a, b>>, BinopHelper(op, a, b))

\* binop_helper(fname, f)(a, b) on operands that are still to be awaited:
\* `a = await a; b = await b;` come before anything looks at a.
BinopAwait(op, ea, eb) ==
    IF ea.k = "err" THEN ea
    ELSE IF eb.k = "err" THEN eb
    ELSE BinopHelper(op, ea.v, eb.v)

\* a && b, a -> b, a || b with a a boolean and b a thunk
CallLogical ==
    /\ Idle
    /\ \E op \in {"And", "Implication", "Or"}, a \in BOOLEAN :
         \E eb \in {Resolved(VBool(TRUE)), Resolved(VBool(FALSE)), Resolved(VNum(1)),
                    Raised("NixEvalError", MsgOther)} :
            Called("logical", <<op, Resolved(VBool(a)), eb>>,
                   BinopAwait(op, Resolved(VBool(a)), eb))

\* tyforce_string(val): the string, or the TypeError
TyforceString(val) ==
    IF val.t # "string"
    THEN TypeErr("value is " \o TypeOf(val) \o " while a string was expected")
    ELSE Resolved(val)

\* abort: throw new NixAbortError(tyforce_string(await s))
Abort(s) ==
    IF s.k = "err" THEN s
    ELSE LET x == TyforceString(s.v)
         IN IF x.k = "err" THEN x ELSE Raised("NixAbortError", <<x.v.v>>)

\* throw: throw new NixEvalError(tyforce_string(await s))
NixThrow(s) ==
    IF s.k = "err" THEN s
    ELSE LET x == TyforceString(s.v)
         IN IF x.k = "err" THEN x ELSE Raised("NixEvalError", <<x.v.v>>)

\* assert(condstr)(cond): the condition is awaited, a non-boolean is a
\* TypeError, and the boolean goes to webassert's assert(cond2, condstr), which
\* throws its own error, with condstr as the message, when cond2 is false.
NixAssert(condstr, cond) ==
    IF cond.k = "err" THEN cond
    ELSE IF TypeOf(cond.v) # "boolean"
    THEN TypeErr("Assertion condition has wrong type (" \o TypeOf(cond.v) \o ")")
    ELSE IF cond.v.v THEN Resolved(VUndef)
    ELSE Raised("AssertionError", <<condstr>>)

\* abort, throw or assert called with an operand
Raising(b, e) ==
    CASE b = "abort" -> Abort(e)
      [] b = "throw" -> NixThrow(e)
      [] b = "assert" -> NixAssert("x == 1", e)

\* The operands handed to abort, throw and assert.
RaisingOperands ==
    {Resolved(VStr("boo")), Resolved(VNum(1)), Resolved(VNull), Resolved(VBool(TRUE)),
     Resolved(VBool(FALSE)), Raised("NixEvalError", MsgOther), Raised("TypeError", MsgNull)}

CallRaising ==
    /\ Idle
    /\ \E b \in {"abort", "throw", "assert"}, e \in RaisingOperands :
           Called(b, <<e>>, Raising(b, e))

\* tryEval(abort s), tryEval(throw s), tryEval(assert cond)
CallTryEvalRaising ==
    /\ Idle
    /\ \E b \in {"abort", "throw", "assert"}, e \in RaisingOperands :
           Called("tryEval of " \o b, <<e>>, TryEval(Raising(b, e)))

\* An attr-set as _deepMerge sees it: with Object.prototype behind it (an
\* object literal) or without a prototype (Object.create(null)).
VObj(proto, f) == [t |-> "attrs", proto |-> proto, v |-> f]

\* nixOp._deepMerge(attrs_, value, ...path): the loop, one round per call.  The
\* outcome holds attrs as the call leaves it (the function itself returns
\* nothing).
RECURSIVE DeepMerge(_, _, _)
DeepMerge(attrs, value, path) ==
    IF path = <<>>
    THEN Raised("NixEvalError", <<"deepMerge: encountered empty path">>)
    ELSE IF TypeOf(attrs) # "object"
    THEN Raised("NixEvalError", <<"deepMerge: tried to merge attrset into non-object ("
                                     \o TypeOf(attrs) \o ")">>)
    ELSE LET pfi == Head(path)
             rest == Tail(path)
         IN IF attrs.t = "null"
            THEN \* null.hasOwnProperty, or null[pfi] = value
                 TypeErr("Cannot read properties of null")
            ELSE IF rest # <<>>
            THEN IF ~attrs.proto
                 THEN TypeErr("attrs.hasOwnProperty is not a function")
                 ELSE LET node == IF pfi \in DOMAIN attrs.v THEN attrs.v[pfi]
                                  ELSE VObj(FALSE, <<>>)
                          r == DeepMerge(node, value, rest)
                      IN IF r.k = "err" THEN r
                         ELSE Resolved([attrs EXCEPT !.v = Assign(@, [k \in {pfi} |-> r.v])])
            ELSE Resolved([attrs EXCEPT !.v = Assign(@, [k \in {pfi} |-> value])])

\* The attr-sets and paths _deepMerge is called with: up to two levels deep,
\* with either kind of attr-set, a number or null at a node.
MergeLeaves == {VNum(1), VNull}
MergeInner ==
    {VObj(proto, f) : proto \in BOOLEAN,
                      f \in {<<>>} \cup {[k \in {"b"} |-> x] : x \in MergeLeaves}}
MergeRoots ==
    {VObj(proto, f) : proto \in BOOLEAN,
                      f \in {<<>>} \cup [{"a"} -> MergeLeaves \cup MergeInner]
                               \cup [{"a", "c"} -> MergeLeaves \cup MergeInner]}
MergePaths ==
    {<<>>, <<"a">>, <<"c">>, <<"a", "b">>, <<"c", "b">>, <<"a", "b", "c">>, <<"c", "b", "a">>}

CallDeepMerge ==
    /\ Idle
    /\ \E attrs \in MergeRoots, path \in MergePaths :
           Called("_deepMerge", <<attrs, VNum(7), path>>, DeepMerge(attrs, VNum(7), path))

\* Attr-sets as objects with an identity: a heap is the sequence of the
\* objects made so far, each the map of its properties, and Ref(id) is a
\* property value that is the object id.
Ref(id) == [t |-> "ref", v |-> id]
\* {i: 0} and {i: 2}, the objects an attr-set of the '//' test holds
Inner == <<[i |-> VNum(0)], [i |-> VNum(2)]>>
AttrKeys == {"a", "b"}
AttrVals == {VNum(1), Ref(1), Ref(2)}
AttrSets == UNION {[K -> AttrVals] : K \in SUBSET AttrKeys}

\* '//' written as Object.assign(a, b)
UpdateInPlace(h, a, b) ==
    [h |-> [h EXCEPT ![a] = Assign(h[a], h[b])], out |-> Resolved(Ref(a))]

\* nixOp.Update on two attr-set objects: fixObjectProto({}, a, b) makes a new
\* object and copies the properties of {}, a and b into it, in that order.
Update(h, a, b) ==
    [h |-> Append(h, Assign(Assign(Assign(<<>>, <<>>), h[a]), h[b])),
     out |-> Resolved(Ref(Len(h) + 1))]

\* a and b are the two attr-sets made last, or one of them twice
CallUpdate ==
    /\ Idle
    /\ \E x \in AttrSets, y \in AttrSets, a \in {3, 4}, b \in {3, 4} :
           LET h == Inner \o <<x, y>>
           IN Called("Update objects", <<h, a, b>>, Update(h, a, b))

\* A thunk of index.ts: a PLazy, which is a Promise. Thunk(id, x) resolves to
\* x; the pair of id and x is its identity, so that two thunks are the same
\* object exactly when they are equal here.
Thunk(id, x) == [t |-> "thunk", v |-> <<id, x>>]

\* The operands of == : numbers, one-element lists and one-key attr-sets whose
\* element is a number or a thunk of one, and such a value behind one or two
\* thunks.
Scalars == {VNum(1), VNum(2)}
Elems == Scalars \cup {Thunk(id, x) : id \in {1, 2}, x \in Scalars}
Plain == Scalars \cup {VList(<<x>>) : x \in Elems} \cup {VAttrs([a |-> x]) : x \in Elems}
EqOperands ==
    Plain \cup {Thunk(3, x) : x \in Plain} \cup {Thunk(4, Thunk(3, x)) : x \in Plain}

\* await x: a promise that resolves to a promise takes its state
RECURSIVE Await(_)
Await(x) == IF x.t = "thunk" THEN Await(x.v[2]) ELSE x

\* lodash isEqual: the same object or primitive is equal; arrays and plain
\* objects are compared member by member; two Promise objects are "[object
\* Promise]" values, for which equalByTag has no case and answers false.
RECURSIVE IsEqual(_, _)
IsEqual(a, b) ==
    IF a = b THEN TRUE
    ELSE IF a.t # b.t THEN FALSE
    ELSE CASE a.t = "list" ->
                /\ Len(a.v) = Len(b.v)
                /\ \A i \in DOMAIN a.v : IsEqual(a.v[i], b.v[i])
           [] a.t = "attrs" ->
                /\ DOMAIN a.v = DOMAIN b.v
                /\ \A k \in DOMAIN a.v : IsEqual(a.v[k], b.v[k])
           [] OTHER -> FALSE

\* nixOp.Equal, nixOp.NotEqual
Equal(a, b) == Resolved(VBool(IsEqual(Await(a), Await(b))))
NotEqual(a, b) == Resolved(VBool(~IsEqual(Await(a), Await(b))))

CallEqual ==
    /\ Idle
    /\ \E a \in EqOperands, b \in EqOperands : Called("Equal", <<a, b>>, Equal(a, b))
CallNotEqual ==
    /\ Idle
    /\ \E a \in EqOperands, b \in EqOperands :
           Called("NotEqual", <<a, b>>, NotEqual(a, b))

\* A thunk whose evaluation throws NixEvalError, as what awaiting it gives.
VFail == [t |-> "fail", v |-> 0]

\* deepSeq_helper(e): await e; if isAttrs(e), which is typeof e === "object",
\* await Promise.all(e.map(deepSeq_helper)).  Of several failing elements the
\* first in the list is reported.
RECURSIVE DeepSeqHelper(_)
DeepSeqHelper(e) ==
    LET a == Await(e)
    IN IF a.t = "fail" THEN Raised("NixEvalError", MsgOther)
       ELSE IF TypeOf(a) # "object" THEN Resolved(VUndef)
       ELSE IF a.t = "null" THEN TypeErr("Cannot read properties of null")
       ELSE IF a.t # "list" THEN TypeErr("e.map is not a function")
       ELSE LET rs == [i \in DOMAIN a.v |-> DeepSeqHelper(a.v[i])]
                bad == {i \in DOMAIN rs : rs[i].k = "err"}
            IN IF bad = {} THEN Resolved(VUndef)
               ELSE rs[CHOOSE i \in bad : \A j \in bad : i <= j]

\* deepSeq(e1)(e2)
DeepSeq(e1, e2) ==
    LET r == DeepSeqHelper(e1)
    IN IF r.k = "err" THEN r ELSE Resolved(e2)

\* The values deepSeq is called with: numbers, thunks, failing thunks, and
\* lists and attr-sets of them, nested once.
SeqLeaves == {VNum(1), Thunk(1, VNum(1)), VFail, Thunk(1, VFail)}
SeqFlat ==
    {VList(<<>>), VAttrs(<<>>), VNull}
        \cup {VList(<<x>>) : x \in SeqLeaves} \cup {VAttrs([a |-> x]) : x \in SeqLeaves}
        \cup {VList(<<x, y>>) : x \in SeqLeaves, y \in SeqLeaves}
SeqOperands ==
    SeqLeaves \cup SeqFlat \cup {Thunk(2, x) : x \in SeqFlat}
        \cup {VList(<<x>>) : x \in SeqFlat} \cup {VAttrs([a |-> x]) : x \in SeqFlat}
        \cup {VList(<<VNum(1), Thunk(2, x)>>) : x \in SeqFlat}

CallDeepSeq ==
    /\ Idle
    /\ \E e1 \in SeqOperands, e2 \in {VNum(2), Thunk(3, VNum(2)), VFail} :
           Called("deepSeq", <<e1, e2>>, DeepSeq(e1, e2))

\* Version strings, as sequences of characters.
Digits == {"0", "1", "2"}
Letters == {"a", "e", "p", "r"}
IsDigit(c) == c \in Digits
IsAlnum(c) == c \in Digits \cup Letters
\* the code unit of a character: digits come before letters
CharCode(c) ==
    CASE c = "0" -> 48 [] c = "1" -> 49 [] c = "2" -> 50
      [] c = "a" -> 97 [] c = "e" -> 101 [] c = "p" -> 112 [] c = "r" -> 114
      [] OTHER -> 46
DigitVal(c) == CharCode(c) - 48

\* splitVersion: split at every character that is no letter or digit, then cut
\* each piece into its maximal runs of letters and of digits; `cur` is the run
\* being read and `acc` the runs found.
RECURSIVE SplitFrom(_, _, _, _)
SplitFrom(s, i, cur, acc) ==
    LET done == IF cur = <<>> THEN acc ELSE Append(acc, cur)
    IN IF i > Len(s) THEN done
       ELSE IF ~IsAlnum(s[i]) THEN SplitFrom(s, i + 1, <<>>, done)
       ELSE IF cur # <<>> /\ IsDigit(cur[1]) = IsDigit(s[i])
            THEN SplitFrom(s, i + 1, Append(cur, s[i]), acc)
            ELSE SplitFrom(s, i + 1, <<s[i]>>, done)
SplitVersion(s) == SplitFrom(s, 1, <<>>, <<>>)

\* The undefined that _.zip puts where the shorter list has no component.
NoComp == <<"undefined">>
Zip(x, y) ==
    [i \in 1..(IF Len(x) > Len(y) THEN Len(x) ELSE Len(y)) |->
        <<IF i <= Len(x) THEN x[i] ELSE NoComp, IF i <= Len(y) THEN y[i] ELSE NoComp>>]

\* a && a.match(/^[0-9]+$/g) !== null
IsNumeric(a) == a # NoComp /\ a # <<>> /\ \A i \in DOMAIN a : IsDigit(a[i])
\* a === "" || a === undefined
IsEmpty(a) == a = <<>> \/ a = NoComp
Pre == <<"p", "r", "e">>

RECURSIVE ParseInt(_)
ParseInt(a) ==
    IF a = <<>> THEN 0
    ELSE 10 * ParseInt(SubSeq(a, 1, Len(a) - 1)) + DigitVal(a[Len(a)])

\* a < b on two strings: by code units, a proper prefix being less
RECURSIVE StrLess(_, _)
StrLess(a, b) ==
    IF b = <<>> THEN FALSE
    ELSE IF a = <<>> THEN TRUE
    ELSE IF a[1] # b[1] THEN CharCode(a[1]) < CharCode(b[1])
    ELSE StrLess(Tail(a), Tail(b))
\* a < b as the engine evaluates it: with undefined on a side it is false
JsLess(a, b) == a # NoComp /\ b # NoComp /\ StrLess(a, b)

Sign(x, y) == IF x < y THEN -1 ELSE IF x = y THEN 0 ELSE 1

\* The function compareVersions maps over the zipped components.
ComparePair(a, b) ==
    IF a = b THEN 0
    ELSE IF IsNumeric(a) /\ IsNumeric(b) THEN Sign(ParseInt(a), ParseInt(b))
    ELSE IF IsEmpty(a) /\ IsNumeric(b) THEN -1
    ELSE IF IsNumeric(a) /\ IsEmpty(b) THEN 1
    ELSE IF a = Pre \/ (~IsNumeric(a) /\ IsNumeric(b)) THEN -1
    ELSE IF b = Pre \/ (IsNumeric(a) /\ ~IsNumeric(b)) THEN 1
    ELSE IF JsLess(a, b) THEN -1 ELSE IF a = b THEN 0 ELSE 1

\* .find((x) => x !== undefined && x !== 0), and 0 when nothing is found
FirstNonZero(xs) ==
    IF \E i \in DOMAIN xs : xs[i] # 0
    THEN xs[CHOOSE i \in DOMAIN xs : xs[i] # 0 /\ \A j \in 1..(i - 1) : xs[j] = 0]
    ELSE 0

\* compareVersions(s1)(s2)
CompareVersions(s1, s2) ==
    LET z == Zip(SplitVersion(s1), SplitVersion(s2))
    IN FirstNonZero([i \in DOMAIN z |-> ComparePair(z[i][1], z[i][2])])

\* The version strings drawn: up to three of these pieces in a row.
Pieces == {<<"2">>, <<"1", "0">>, Pre, <<"a">>, <<".">>}
Versions ==
    Pieces \cup {x \o y : x \in Pieces, y \in Pieces}
        \cup {x \o y \o z : x \in Pieces, y \in Pieces, z \in Pieces}

CallCompareVersions ==
    /\ Idle
    /\ \E s1 \in Versions, s2 \in Versions :
           Called("compareVersions", <<s1, s2>>,
                  Resolved(VNum(CompareVersions(s1, s2))))

\* compareVersions(s1)(s2) and compareVersions(s2)(s1)
CallCompareBothWays ==
    /\ Idle
    /\ \E s1 \in Versions, s2 \in Versions :
           Called("compareVersions both ways", <<s1, s2>>,
                  Resolved(VList(<<VNum(CompareVersions(s1, s2)),
                                   VNum(CompareVersions(s2, s1))>>)))

\* JSON text, as the sequence of its tokens: punctuation, literals, numbers and
\* quoted strings.
Punct(c) == [k |-> "punct", v |-> c]
Lit(w) == [k |-> "lit", v |-> w]
NumTok(n) == [k |-> "num", v |-> n]
StrTok(x) == [k |-> "str", v |-> x]
JsonText(toks) == [t |-> "text", v |-> toks]

\* The order in which the keys of an object are written.
KeyOrder == <<"__proto__", "a">>
KeysOf(f) == SelectSeq(KeyOrder, LAMBDA k : k \in DOMAIN f)

\* JSON.stringify
RECURSIVE Stringify(_)
RECURSIVE StringifyElems(_, _)
RECURSIVE StringifyMembers(_, _, _)
StringifyElems(xs, i) ==
    IF i > Len(xs) THEN <<>>
    ELSE (IF i > 1 THEN <<Punct(",")>> ELSE <<>>) \o Stringify(xs[i])
            \o StringifyElems(xs, i + 1)
StringifyMembers(f, ks, i) ==
    IF i > Len(ks) THEN <<>>
    ELSE (IF i > 1 THEN <<Punct(",")>> ELSE <<>>)
            \o <<StrTok(ks[i]), Punct(":")>> \o Stringify(f[ks[i]])
            \o StringifyMembers(f, ks, i + 1)
Stringify(x) ==
    CASE x.t = "null" -> <<Lit("null")>>
      [] x.t = "boolean" -> <<Lit(IF x.v THEN "true" ELSE "false")>>
      [] x.t = "number" -> <<NumTok(x.v)>>
      [] x.t = "string" -> <<StrTok(x.v)>>
      [] x.t = "list" -> <<Punct("[")>> \o StringifyElems(x.v, 1) \o <<Punct("]")>>
      [] x.t = "attrs" ->
           <<Punct("{")>> \o StringifyMembers(x.v, KeysOf(x.v), 1) \o <<Punct("}")>>

\* toJSON
ToJSON(x) == JsonText(Stringify(x))

\* The replace of anti_pollution: __proto__ that is followed by a closing
\* quote, a colon and then an opening brace or quote becomes __pollutants__.
ReplaceProto(toks) ==
    [i \in DOMAIN toks |->
        IF /\ toks[i] = StrTok("__proto__")
           /\ i + 2 <= Len(toks)
           /\ toks[i + 1] = Punct(":")
           /\ (toks[i + 2] = Punct("{") \/ toks[i + 2].k = "str")
        THEN StrTok("__pollutants__")
        ELSE toks[i]]

\* JSON.parse: the value that starts at token i, and the index after it.
RECURSIVE ParseValue(_, _)
RECURSIVE ParseElems(_, _, _)
RECURSIVE ParseMembers(_, _, _)
ParseElems(toks, i, acc) ==
    IF toks[i] = Punct("]") THEN [v |-> VList(acc), n |-> i + 1]
    ELSE IF toks[i] = Punct(",") THEN ParseElems(toks, i + 1, acc)
    ELSE LET r == ParseValue(toks, i) IN ParseElems(toks, r.n, Append(acc, r.v))
ParseMembers(toks, i, acc) ==
    IF toks[i] = Punct("}") THEN [v |-> VAttrs(acc), n |-> i + 1]
    ELSE IF toks[i] = Punct(",") THEN ParseMembers(toks, i + 1, acc)
    ELSE LET r == ParseValue(toks, i + 2)
         IN ParseMembers(toks, r.n, Assign(acc, [k \in {toks[i].v} |-> r.v]))
ParseValue(toks, i) ==
    LET tok == toks[i]
    IN CASE tok = Punct("[") -> ParseElems(toks, i + 1, <<>>)
         [] tok = Punct("{") -> ParseMembers(toks, i + 1, <<>>)
         [] tok.k = "str" -> [v |-> VStr(tok.v), n |-> i + 1]
         [] tok.k = "num" -> [v |-> VNum(tok.v), n |-> i + 1]
         [] tok = Lit("null") -> [v |-> VNull, n |-> i + 1]
         [] OTHER -> [v |-> VBool(tok.v = "true"), n |-> i + 1]
JsonParse(toks) == ParseValue(toks, 1).v

\* anti_pollution: fixObjectProto(JSON.parse(e.replace(...)))
AntiPollution(toks) == FixObjectProto(JsonParse(ReplaceProto(toks)), VNull)

\* fromJSON: tyforce_string, then anti_pollution
FromJSON(e) ==
    IF e.t # "text"
    THEN TypeErr("value is " \o TypeOf(e) \o " while a string was expected")
    ELSE Resolved(AntiPollution(e.v))

\* The JSON-representable values drawn.
JsonScalars == {VNull, VBool(TRUE), VNum(1), VStr("a")}
JsonLists ==
    {VList(<<>>)} \cup {VList(<<x>>) : x \in JsonScalars}
        \cup {VList(<<x, y>>) : x \in JsonScalars, y \in JsonScalars}
JsonFlat ==
    {VAttrs(f) : f \in UNION {[K -> JsonScalars] : K \in SUBSET {"a", "__proto__"}}}
JsonValues ==
    JsonScalars \cup JsonLists \cup JsonFlat
        \cup {VAttrs([k \in {"a"} |-> x]) : x \in JsonLists \cup JsonFlat}
        \cup {VAttrs([k \in {"__proto__"} |-> x]) : x \in JsonFlat}

CallJsonRoundTrip ==
    /\ Idle
    /\ \E x \in JsonValues : Called("fromJSON of toJSON", <<x>>, FromJSON(ToJSON(x)))

\* Paths, as the sequences of their segments.
VPath(segs) == [t |-> "path", v |-> segs]
Home == <<"home">>
Cwd == <<"cwd">>
\* path.resolve(process.env.HOME, 'devel/nixpkgs/lib/systems/inspect.nix')
Inspect == Home \o <<"devel", "nixpkgs", "lib", "systems", "inspect.nix">>
\* path.dirname
Dirname(p) == SubSeq(p, 1, Len(p) - 1)
\* path.resolve of a relative path against a base
PathResolve(base, segs) == base \o SelectSeq(segs, LAMBDA x : x # ".")

\* NIX_PATH, as its ':'-separated entries, each split at '=': <<prefix>> or
\* <<name, prefix>>.  Unset and empty are both <<>>.
NixPaths ==
    { <<>>,
      <<<<"nixpkgs", "np">>>>,
      <<<<"r1">>, <<"r2">>>>,
      <<<<"nixpkgs", "np">>, <<"r1">>>>,
      <<<<"nixpkgs", "old">>, <<"nixpkgs", "np">>>> }
\* nix_path_parsed: a later entry of the same name replaces an earlier one.
NixPathParsed(np) ==
    LET named == {i \in DOMAIN np : Len(np[i]) = 2}
        last(n) == CHOOSE i \in named :
                      /\ np[i][1] = n
                      /\ \A j \in named : np[j][1] = n => j <= i
        bare == SelectSeq(np, LAMBDA x : Len(x) = 1)
    IN [lookup |-> [n \in {np[i][1] : i \in named} |-> np[last(n)][2]],
        rest |-> [i \in DOMAIN bare |-> bare[i][1]]]

\* The loop over nix_path_parsed.rest: the first prefix under which the payload
\* is readable, or the throw after the loop.
RECURSIVE ExportRest(_, _, _, _)
ExportRest(rest, i, xpath, readable) ==
    IF i > Len(rest)
    THEN Raised("NixEvalError", <<"export did not resolve">>)
    ELSE LET tmp == PathResolve(<<rest[i]>>, xpath)
         IN IF tmp \in readable THEN Resolved(VPath(tmp))
            ELSE ExportRest(rest, i + 1, xpath, readable)

\* The anchors the translator names, and one it does not.
Anchors == {"Relative", "Absolute", "Home", "Store", "Uri"}
\* The payloads drawn; <<>> is the empty string.
Payloads == {<<>>, <<".", "parse.nix">>, <<"nixpkgs", "lib">>, <<"x">>}
\* The modules that call export.
Opaths == {<<"d", "f.nix">>, Inspect}
\* What fs.access finds readable under the unnamed prefixes.
Readables(xpath) == SUBSET {PathResolve(<<r>>, xpath) : r \in {"r1", "r2"}}

\* buildRT(opath).export(anchor, xpath), awaited
Export(opath, anchor, xpath, np, readable) ==
    IF xpath = <<>> THEN Raised("Error", <<"null path">>)
    ELSE CASE anchor = "Relative" ->
                (IF opath = Inspect /\ xpath = <<".", "parse.nix">>
                 THEN Raised("Error", <<"manual mutual-recursion breaker">>)
                 ELSE Resolved(VPath(PathResolve(Dirname(opath), xpath))))
           [] anchor = "Absolute" -> Resolved(VPath(PathResolve(Cwd, xpath)))
           [] anchor = "Home" -> Resolved(VPath(PathResolve(Home, xpath)))
           [] anchor = "Store" ->
                (IF np = <<>>
                 THEN Raised("NixEvalError", <<"export not supported">>)
                 ELSE LET parsed == NixPathParsed(np)
                      IN IF xpath[1] \in DOMAIN parsed.lookup
                         THEN Resolved(VPath(PathResolve(<<parsed.lookup[xpath[1]]>>,
                                                         Tail(xpath))))
                         ELSE ExportRest(parsed.rest, 1, xpath, readable))
           [] OTHER -> Raised("Error", <<"export not supported">>)

CallExport ==
    /\ Idle
    /\ \E opath \in Opaths, anchor \in Anchors, xpath \in Payloads, np \in NixPaths :
         \E readable \in Readables(xpath) :
            Called("export", <<opath, anchor, xpath, np, readable>>,
                   Export(opath, anchor, xpath, np, readable))

\* tryEval(lazy(() => export(anchor, xpath)))
CallTryEvalExport ==
    /\ Idle
    /\ \E opath \in Opaths, anchor \in Anchors, xpath \in Payloads, np \in NixPaths :
         \E readable \in Readables(xpath) :
            Called("tryEval of export", <<opath, anchor, xpath, np, readable>>,
                   TryEval(Export(opath, anchor, xpath, np, readable)))

InitBuiltins == call = NoCall

NextBuiltins ==
    \/ Return
    \/ CallTryEval
    \/ CallOrDefault
    \/ CallBinop
    \/ CallLogical
    \/ CallDeepMerge
    \/ CallDeepSeq
    \/ CallRaising
    \/ CallTryEvalRaising
    \/ CallUpdate
    \/ CallEqual
    \/ CallNotEqual
    \/ CallCompareVersions
    \/ CallCompareBothWays
    \/ CallJsonRoundTrip
    \/ CallExport
    \/ CallTryEvalExport


\* ------------------------------------------------------------ specifications
Init == InitLazy /\ InitScope /\ InitImport /\ InitBuiltins

Next == NextLazy \/ NextScope \/ NextImport \/ NextBuiltins

Spec == Init /\ [][Next]_vars

SpecLazy == Init /\ [][NextLazy]_vars

SpecScope == Init /\ [][NextScope]_vars

SpecImport == Init /\ [][NextImport]_vars

SpecBuiltins == Init /\ [][NextBuiltins]_vars

\* The host's event loop completes every fs.readFile it was handed and runs the
\* continuation of the importTail call awaiting it.
SpecImportLive ==
    Init /\ [][NextImport]_vars /\ \A id \in 1..MaxReq : WF_vars(ReadDone(id))

\* ------------------------------------------------------ claims: lazy core
\* C1 (thunk idempotence): for every Lazy t, all calls of t.evaluate() return
\* the same value, the function t was built with runs at most once, and a
\* forced t (iL false) stays forced.
C1_ThunkIdempotence ==
    [][\A t \in DOMAIN lz :
          /\ Cardinality(rets'[t]) <= 1
          /\ runs'[t] <= 1
          /\ (~lz[t].iL => ~lz'[t].iL)]_vars

\* C2 (thunk splice): when the producer of t returns the Lazy u, every value
\* force(t) has returned equals every value force(u) has returned, and force(t)
\* never returns a Lazy.
C2_ThunkSplice ==
    \A t \in Thunks :
        prog[t].op = "lazy" /\ prog[t].u \in Thunks =>
            \A a \in rets[t] :
                /\ ~IsLazy(a)
                /\ \A b \in rets[prog[t].u] : a = b

\* C3 (self-reference detection): a force of t made while the producer of t is
\* running never returns a value.
C3_SelfReference == ~reent

\* C4 (retry after failure): after a force of t in which the producer threw, t
\* is unforced again and still holds a producer, so that the next force runs it.
C4_RetryAfterFailure ==
    (lastLz.op = "force" /\ lastLz.out.k = "throw") =>
        /\ lz[lastLz.t].iL
        /\ lz[lastLz.t].i.k = "function"

\* C5 (transparent field access): a read t[k] that returns has forced t, returns
\* force(t)[k] (undefined for an absent key), and the producer of t has run at
\* most once over all reads.
C5_TransparentGet ==
    (lastLz.op = "get" /\ lastLz.out.k = "ret") =>
        /\ ~lz[lastLz.t].iL
        /\ lastLz.out = GetProp(lz[lastLz.t].i, lastLz.k)
        /\ runs[lastLz.t] <= 1

C7_PrototypeSafety ==
    [][(lastSc'.op = "set" /\ objs[lastSc'.s].kind = "scope"
            /\ lastSc'.k = "__proto__") =>
          /\ lastSc'.out = "ScopeError"
          /\ lastSc'.msg = "Tried modifying prototype"
          /\ objs' = objs]_vars

\* __proto__ has been assigned on a child scope whose parent holds a binding.
C7_Witness ==
    /\ lastSc.op = "set"
    /\ lastSc.k = "__proto__"
    /\ lastSc.out = "ScopeError"
    /\ objs[lastSc.s].kind = "scope"
    /\ objs[lastSc.s].parent # 0
    /\ Lookup(objs, lastSc.s, "a") # Absent

\* C8 (read-only invariance), for the keys a layer holds: on a read-only scope
\* every write, delete and property redefinition raises ScopeError and changes
\* nothing.
C8_ReadOnlyInvariance ==
    [][(lastSc'.op \in {"set", "delete", "define"}
            /\ objs[lastSc'.s].kind = "with"
            /\ HasProp(objs, lastSc'.s, lastSc'.k)) =>
          /\ lastSc'.out = "ScopeError"
          /\ objs' = objs]_vars

\* --------------------------------------------------- claims: import engine
\* The calls of import_ that named a path.
Requests == {i \in DOMAIN got : got[i].h.k # "thrown"}

C10_EvaluatedOnce ==
    \A f \in Paths :
        FileKind(f) = "file" => reads[f] <= 1 /\ trans[f] <= 1 /\ evals[f] <= 1

\* The two files that import each other.
CycleFiles == {"/a.nix", "/b.nix"}

\* C11 (import cycle): for two files that import each other inside thunks
\* forced after the importing module was evaluated, every started load of one
\* of them eventually settles with the module's value; each is read, translated
\* and evaluated at most once, and exactly once when loaded; the cache entry of
\* a file is in place when its translation begins; and when both are loaded and
\* nothing else was requested the cache holds exactly these two entries.
C11_ImportCycle ==
    /\ [](\A p \in CycleFiles :
            /\ reads[p] <= 1 /\ trans[p] <= 1 /\ evals[p] <= 1
            /\ (import_cache[p].k = "value" =>
                    reads[p] = 1 /\ trans[p] = 1 /\ evals[p] = 1))
    /\ [][\A p \in CycleFiles :
              trans'[p] > trans[p] => import_cache[p].k = "promise"]_vars
    /\ []((/\ \A i \in DOMAIN got : got[i].xpath \in CycleFiles
           /\ \A p \in CycleFiles : import_cache[p].k = "value")
              => {p \in Paths : CacheHas(import_cache, p)} = CycleFiles)
    /\ \A p \in CycleFiles :
           (import_cache[p].k = "promise") ~> (import_cache[p].k = "value")

\* /a.nix was imported, its thunk imported /b.nix, and the thunk of /b.nix then
\* asked for /a.nix again and got the value in the cache; each file was
\* translated once.
C11_Witness ==
    /\ Len(got) = 3
    /\ got[1].xpath = "/a.nix" /\ got[1].h.k = "promise"
    /\ got[2].xpath = "/b.nix" /\ got[2].h.k = "promise"
    /\ got[3].xpath = "/a.nix" /\ got[3].h = ModuleValue("/a.nix", 1)
    /\ import_cache["/b.nix"] = ModuleValue("/b.nix", 1)
    /\ trans["/a.nix"] = 1 /\ trans["/b.nix"] = 1
    /\ {p \in Paths : CacheHas(import_cache, p)} = CycleFiles

\* C12 (import failure kind): an importTail call that failed, at reading,
\* translating or evaluating, rejected with a NixEvalError.
C12_FailureIsNixEvalError ==
    \A id \in DOMAIN tasks :
        tasks[id].res.k = "err" => tasks[id].res.f = "NixEvalError"

\* ------------------------------------------- claims: operators and builtins
\* C13 (tryEval): on an operand that settles with a value the result is
\* {success: true, value: that value}; the result is {success: false, value:
\* false} exactly when the operand raised a NixEvalError; an error of any other
\* kind, or a thrown value that is no error, comes out of tryEval unchanged.
C13_TryEval ==
    call.op = "tryEval" =>
        LET e == call.args[1]
            failed == Resolved(TryEvalResult(VBool(FALSE), FALSE))
        IN /\ e.k = "ok" => call.out = Resolved(TryEvalResult(e.v, TRUE))
           /\ (call.out = failed) <=> (e.k = "err" /\ e.cls = "NixEvalError")
           /\ (e.k = "err" /\ e.cls # "NixEvalError") => call.out = e

\* tryEval over an operand that raised a NixEvalError gave {success: false,
\* value: false}.
C13_Witness ==
    /\ call.op = "tryEval"
    /\ call.args[1] = Raised("NixEvalError", MsgOther)
    /\ call.out = Resolved(TryEvalResult(VBool(FALSE), FALSE))

\* C14 (or_default): a primary that yields a defined value is the result and
\* the fallback is not forced; a primary that yields undefined, or raises the
\* engine's TypeError "Cannot read properties of undefined ...", gives the
\* forced fallback; any other error of the primary comes out unchanged and the
\* fallback is not forced.
C14_OrDefault ==
    call.op = "orDefault" =>
        LET selopf == call.args[1]
            dflf == call.args[2]
            missing == \/ selopf = Resolved(VUndef)
                       \/ /\ selopf.k = "err"
                          /\ selopf.cls = "TypeError"
                          /\ selopf.msg = MsgUndefined
        IN IF missing
           THEN call.out = [out |-> dflf, dflf |-> TRUE]
           ELSE call.out = [out |-> selopf, dflf |-> FALSE]

\* The primary raised the TypeError of a read on null: it came out of
\* orDefault, and the fallback was left alone.
C14_Witness ==
    /\ call.op = "orDefault"
    /\ call.args[1] = Raised("TypeError", MsgNull)
    /\ call.args[2] = Resolved(VNum(1))
    /\ call.out = [out |-> Raised("TypeError", MsgNull), dflf |-> FALSE]

\* The Nix type of a forced value, and the types each typed operator accepts.
NixType(x) ==
    CASE x.t = "number" -> "number" [] x.t = "boolean" -> "bool"
      [] x.t = "attrs" -> "set" [] x.t = "function" -> "lambda" [] OTHER -> x.t
Accepted(op) ==
    CASE op = "Add" -> {"number", "string"}
      [] op = "Concat" -> {"list"}
      [] op = "Update" -> {"set"}
      [] op \in {"And", "Implication", "Or"} -> {"bool"}
      [] OTHER -> {"number"}

\* C15 (operator type-symmetry): a typed binary operator raises a TypeError
\* exactly when the Nix types of its operands differ or their type is not one
\* the operator accepts, and otherwise returns a result (a zero divisor, which
\* has its own RangeError, set aside).
C15_TypeSymmetry ==
    call.op \in TypedOps =>
        LET a == call.args[1]
            b == call.args[2]
            bad == NixType(a) # NixType(b) \/ NixType(a) \notin Accepted(call.op)
        IN /\ (call.out.k = "err" /\ call.out.cls = "TypeError") <=> bad
           /\ ~bad => \/ call.out.k = "ok"
                      \/ call.op = "Div" /\ b = VNum(0)

\* C16 (merge purity): a // b returns a new attr-set that holds every key of a
\* and of b, with b's value on a common key and each value taken as it is (an
\* attr-set held as a value is neither merged nor copied); a, b and every other
\* object are as they were before.
C16_MergePurity ==
    call.op = "Update objects" =>
        LET h == call.args[1]
            a == call.args[2]
            b == call.args[3]
            h2 == call.out.h
            r == call.out.out.v.v
        IN /\ call.out.out.k = "ok"
           /\ r \notin DOMAIN h /\ r \in DOMAIN h2
           /\ \A i \in DOMAIN h : h2[i] = h[i]
           /\ DOMAIN h2[r] = DOMAIN h[a] \cup DOMAIN h[b]
           /\ \A k \in DOMAIN h2[r] :
                  h2[r][k] = IF k \in DOMAIN h[b] THEN h[b][k] ELSE h[a][k]

\* {a: {i: 0}} // {a: {i: 2}} gave a new {a: {i: 2}}, and the left operand
\* still holds {i: 0}.
C16_Witness ==
    /\ call.op = "Update objects"
    /\ call.args[1] = Inner \o <<[a |-> Ref(1)], [a |-> Ref(2)]>>
    /\ call.args[2] = 3 /\ call.args[3] = 4
    /\ call.out.h[5] = [a |-> Ref(2)]
    /\ call.out.h[3] = [a |-> Ref(1)]
    /\ call.out.h[1] = [i |-> VNum(0)]

\* A value with every thunk in it forced, at any depth.
RECURSIVE DeepForce(_)
DeepForce(x) ==
    CASE x.t = "thunk" -> DeepForce(x.v[2])
      [] x.t = "list" -> VList([i \in DOMAIN x.v |-> DeepForce(x.v[i])])
      [] x.t = "attrs" -> VAttrs([k \in DOMAIN x.v |-> DeepForce(x.v[k])])
      [] OTHER -> x

\* C17 (deep equality): two operands that are the same value once every thunk
\* in them is forced compare equal: == gives true and != gives false, wherever
\* the thunks sit.
C17_DeepEquality ==
    (call.op \in {"Equal", "NotEqual"}
        /\ DeepForce(call.args[1]) = DeepForce(call.args[2])) =>
            call.out = Resolved(VBool(call.op = "Equal"))

\* The pairwise rules as stated, on two components of which either may be
\* absent: an absent component counts as the empty string wherever no rule
\* names it.
StatedPair(a, b) ==
    LET x == IF a = NoComp THEN <<>> ELSE a
        y == IF b = NoComp THEN <<>> ELSE b
        num(c) == c # <<>> /\ \A i \in DOMAIN c : IsDigit(c[i])
    IN IF x = y THEN 0
       ELSE IF num(x) /\ num(y) THEN Sign(ParseInt(x), ParseInt(y))
       ELSE IF x = <<>> /\ num(y) THEN -1
       ELSE IF num(x) /\ y = <<>> THEN 1
       ELSE IF x = Pre THEN -1
       ELSE IF y = Pre THEN 1
       ELSE IF num(x) THEN 1
       ELSE IF num(y) THEN -1
       ELSE IF StrLess(x, y) THEN -1 ELSE 1

\* C18 (compareVersions): the result is -1, 0 or 1, and it is the sign the
\* stated pairwise rules give for the first pair of components they do not
\* find equal, 0 when there is none.
C18_CompareVersions ==
    call.op = "compareVersions" =>
        LET z == Zip(SplitVersion(call.args[1]), SplitVersion(call.args[2]))
            r == call.out.v.v
        IN /\ r \in {-1, 0, 1}
           /\ r = FirstNonZero([i \in DOMAIN z |-> StatedPair(z[i][1], z[i][2])])

\* C19 (JSON round-trip): fromJSON(toJSON(x)) is a value equal to x, for every
\* JSON-representable x.
C19_JsonRoundTrip ==
    call.op = "fromJSON of toJSON" => call.out = Resolved(call.args[1])

\* C20 (export error kind): export of a non-empty payload fails with a
\* NixEvalError when the anchor is none of Relative, Absolute, Home, Store, and
\* when a Store payload matches no named search-path entry and is readable under
\* no unnamed one; tryEval over such an export is {success=false, value=false}.
C20_ExportErrorKind ==
    call.op \in {"export", "tryEval of export"} =>
        LET anchor == call.args[2]
            xpath == call.args[3]
            np == call.args[4]
            readable == call.args[5]
            named == \E i \in DOMAIN np : Len(np[i]) = 2 /\ np[i][1] = xpath[1]
            unnamed == \E i \in DOMAIN np :
                          Len(np[i]) = 1 /\ PathResolve(<<np[i][1]>>, xpath) \in readable
            unknown == anchor \notin {"Relative", "Absolute", "Home", "Store"}
            fails == xpath # <<>> /\ (unknown \/ (anchor = "Store" /\ ~named /\ ~unnamed))
        IN fails =>
            IF call.op = "export"
            THEN call.out.k = "err" /\ call.out.cls = "NixEvalError"
            ELSE call.out = Resolved(TryEvalResult(VBool(FALSE), FALSE))

\* The import of p has failed: the cache holds the promise of an importTail
\* call that was rejected.
FailedImport(p) ==
    /\ import_cache[p].k = "promise"
    /\ tasks[import_cache[p].n].res.k = "err"

\* C21 (failed imports are cached): once import(p) has failed, the cache entry
\* of p is never removed or replaced, and every later import(p) returns the
\* same rejected promise, with the same error, without a further file read or
\* translation.
C21_FailedImportCached ==
    [][\A p \in Paths :
         FailedImport(p) =>
            /\ import_cache'[p] = import_cache[p]
            /\ tasks'[import_cache[p].n].res = tasks[import_cache[p].n].res
            /\ (Len(got') > Len(got) /\ got'[Len(got')].xpath = p) =>
                  /\ got'[Len(got')].h = import_cache[p]
                  /\ reads' = reads
                  /\ trans' = trans
                  /\ tasks' = tasks]_vars

\* A path was imported twice, both calls got the same promise, which was
\* rejected, and the path was read once.
C21_Witness ==
    \E i \in DOMAIN got, j \in DOMAIN got :
        /\ i < j
        /\ got[i].xpath = got[j].xpath
        /\ got[i].xpath \in Paths
        /\ FailedImport(got[i].xpath)
        /\ got[i].h = import_cache[got[i].xpath]
        /\ got[j].h = got[i].h
        /\ reads[got[i].xpath] = 1

\* C22 (binding immutability): in a writable scope a key that is bound keeps
\* its value through every assignment and every delete attempt, successful or
\* failing, and reading it gives that value.
C22_BindingImmutable ==
    [][\A s \in Scopes, k \in ScopeKeys :
         (objs[s].kind = "scope" /\ HasOwn(objs[s], k)) =>
            /\ objs'[s].own[k] = objs[s].own[k]
            /\ Lookup(objs', s, k) = objs[s].own[k]]_vars

\* A delete of a bound key was attempted on a writable scope.
C22_Witness ==
    /\ lastSc.op = "delete"
    /\ objs[lastSc.s].kind = "scope"
    /\ lastSc.out = "false"
    /\ HasOwn(objs[lastSc.s], lastSc.k)
    /\ Lookup(objs, lastSc.s, lastSc.k) = objs[lastSc.s].own[lastSc.k]

\* C23 (parent chaining): a child made by mkScope(parent) reads a key it does
\* not bind from its parent; binding in the child a key the parent binds
\* succeeds, the child then reads its own value, and the parent's bindings,
\* allKeys and extractScope are unchanged; extractScope holds own bindings only.
C23_ParentChaining ==
    /\ [](\A s \in Scopes, k \in ScopeKeys :
            (objs[s].kind = "scope" /\ objs[s].parent # 0) =>
               /\ ~HasOwn(objs[s], k) => Lookup(objs, s, k) = Lookup(objs, objs[s].parent, k)
               /\ \A x \in DOMAIN ExtractScope(objs[s]) :
                     HasOwn(objs[s], x) /\ ExtractScope(objs[s])[x] = objs[s].own[x])
    /\ [][(/\ lastSc'.op = "set"
           /\ objs[lastSc'.s].kind = "scope"
           /\ objs[lastSc'.s].parent # 0
           /\ ~HasOwn(objs[lastSc'.s], lastSc'.k)
           /\ HasProp(objs, objs[lastSc'.s].parent, lastSc'.k)) =>
             LET s == lastSc'.s
                 k == lastSc'.k
                 q == objs[s].parent
             IN /\ lastSc'.out = "ok"
                /\ Lookup(objs', s, k) = lastSc'.v
                /\ objs'[q] = objs[q]
                /\ Lookup(objs', q, k) = Lookup(objs, q, k)
                /\ AllKeys(objs', q) = AllKeys(objs, q)
                /\ objs[q].kind = "scope" => ExtractScope(objs'[q]) = ExtractScope(objs[q])]_vars

\* A child has bound, to another value, a key its parent binds.
C23_Witness ==
    /\ lastSc.op = "set"
    /\ lastSc.out = "ok"
    /\ objs[lastSc.s].kind = "scope"
    /\ objs[lastSc.s].parent # 0
    /\ objs[objs[lastSc.s].parent].kind = "scope"
    /\ HasOwn(objs[objs[lastSc.s].parent], lastSc.k)
    /\ objs[lastSc.s].own[lastSc.k] = lastSc.v
    /\ objs[objs[lastSc.s].parent].own[lastSc.k] # lastSc.v
    /\ AllKeys(objs, lastSc.s) = <<lastSc.k>>

\* C24 (allKeys completeness): for a writable scope, allKeys holds, without
\* duplicates, exactly the names a lookup resolves through the scope.
C24_AllKeysComplete ==
    \A s \in Scopes :
        objs[s].kind = "scope" =>
            LET ks == AllKeys(objs, s)
            IN /\ \A i \in DOMAIN ks, j \in DOMAIN ks : ks[i] = ks[j] => i = j
               /\ {ks[i] : i \in DOMAIN ks} = {k \in ScopeKeys : HasProp(objs, s, k)}

\* C25 (overlay lookup): reading k on mkScopeWith(l1, ..., ln) gives the value
\* of k in the first layer that contains it and undefined when none does; a key
\* bound in a writable layer after the overlay was built is visible through it.
C25_OverlayLookup ==
    /\ [](\A s \in Scopes, k \in ScopeKeys :
            objs[s].kind = "with" =>
               LET ls == objs[s].layers
                   has(j) == HasProp(objs, ls[j], k)
               IN /\ (\A j \in DOMAIN ls : ~has(j)) => Lookup(objs, s, k) = Absent
                  /\ \A j \in DOMAIN ls :
                        (has(j) /\ \A i \in 1..(j - 1) : ~has(i)) =>
                            Lookup(objs, s, k) = Lookup(objs, ls[j], k))
    /\ [][(lastSc'.op = "set" /\ lastSc'.out = "ok") =>
            \A w \in Scopes :
               (/\ objs[w].kind = "with"
                /\ \E j \in DOMAIN objs[w].layers :
                      /\ objs[w].layers[j] = lastSc'.s
                      /\ \A i \in 1..(j - 1) : ~HasProp(objs, objs[w].layers[i], lastSc'.k)) =>
                   Lookup(objs', w, lastSc'.k) = lastSc'.v]_vars

\* An overlay of two layers that bind the key differently reads the first
\* layer's value, and that layer bound the key after the overlay was built.
C25_Witness ==
    \E w \in Scopes :
        /\ objs[w].kind = "with"
        /\ Len(objs[w].layers) = 2
        /\ lastSc.op = "set"
        /\ lastSc.out = "ok"
        /\ lastSc.s = objs[w].layers[1]
        /\ HasProp(objs, objs[w].layers[2], lastSc.k)
        /\ Lookup(objs, objs[w].layers[2], lastSc.k) # lastSc.v
        /\ Lookup(objs, w, lastSc.k) = lastSc.v

\* C26 (short-circuit): when the left operand alone decides the result (false
\* for &&, true for ||, false for ->), that result is returned whatever the
\* right operand is, an error or a non-bool included.
C26_ShortCircuit ==
    call.op = "logical" =>
        LET op == call.args[1]
            a == call.args[2].v.v
        IN /\ (op = "And" /\ ~a) => call.out = Resolved(VBool(FALSE))
           /\ (op = "Or" /\ a) => call.out = Resolved(VBool(TRUE))
           /\ (op = "Implication" /\ ~a) => call.out = Resolved(VBool(TRUE))

\* C27 (error kinds of the raising builtins): abort s raises NixAbortError and
\* throw s NixEvalError for a string s; assert raises TypeError when the forced
\* condition is no bool and NixEvalError('assertion failed') when it is false;
\* tryEval over a failed assertion is {success=false, value=false} and tryEval
\* over abort propagates.
C27_RaisingBuiltins ==
    LET e == call.args[1]
        isString == e.k = "ok" /\ e.v.t = "string"
        raises(cls) == call.out.k = "err" /\ call.out.cls = cls
    IN /\ (call.op = "abort" /\ isString) => raises("NixAbortError")
       /\ (call.op = "throw" /\ isString) => raises("NixEvalError")
       /\ (call.op = "assert" /\ e.k = "ok" /\ e.v.t # "boolean") => raises("TypeError")
       /\ (call.op = "assert" /\ e = Resolved(VBool(FALSE))) =>
             call.out = Raised("NixEvalError", <<"assertion failed">>)
       /\ (call.op = "tryEval of assert" /\ e = Resolved(VBool(FALSE))) =>
             call.out = Resolved(TryEvalResult(VBool(FALSE), FALSE))
       /\ (call.op = "tryEval of abort" /\ isString) => raises("NixAbortError")

\* What C28 says of a node and the rest of the path below it: the path crosses
\* a node that is no attr-set, the value found along the path, and the keys off
\* the path being as before (with nodes created along the path prototype-free).
RECURSIVE Crosses(_, _)
Crosses(node, path) ==
    \/ node.t # "attrs"
    \/ /\ Len(path) > 1
       /\ Head(path) \in DOMAIN node.v
       /\ Crosses(node.v[Head(path)], Tail(path))
RECURSIVE Merged(_, _, _, _)
Merged(old, new, value, path) ==
    /\ new.t = "attrs"
    /\ new.proto = old.proto
    /\ DOMAIN new.v = DOMAIN old.v \cup {Head(path)}
    /\ \A k \in DOMAIN old.v \ {Head(path)} : new.v[k] = old.v[k]
    /\ IF Len(path) = 1 THEN new.v[Head(path)] = value
       ELSE Merged(IF Head(path) \in DOMAIN old.v THEN old.v[Head(path)]
                   ELSE VObj(FALSE, <<>>),
                   new.v[Head(path)], value, Tail(path))

\* C28 (_deepMerge): on an empty path, or when the path crosses a node that is
\* no attr-set, the call fails with NixEvalError; otherwise it ends with value
\* at the path, missing nodes created as prototype-free attr-sets and every key
\* off the path unchanged, whether the attr-sets have a prototype or not.
C28_DeepMerge ==
    call.op = "_deepMerge" =>
        LET attrs == call.args[1]
            value == call.args[2]
            path == call.args[3]
        IN IF path = <<>> \/ Crosses(attrs, path)
           THEN call.out.k = "err" /\ call.out.cls = "NixEvalError"
           ELSE call.out.k = "ok" /\ Merged(attrs, call.out.v, value, path)

\* Every part of e forces without error: e itself, every element of a list and
\* every value of an attr-set, at any depth.
RECURSIVE AllForce(_)
AllForce(e) ==
    LET a == Await(e)
    IN /\ a.t # "fail"
       /\ a.t = "list" => \A i \in DOMAIN a.v : AllForce(a.v[i])
       /\ a.t = "attrs" => \A k \in DOMAIN a.v : AllForce(a.v[k])

\* C29 (deepSeq): deepSeq e1 e2 returns e2 as it is for every e1 whose parts
\* all force without error, and fails when a part of e1 at any depth fails.
C29_DeepSeq ==
    call.op = "deepSeq" =>
        IF AllForce(call.args[1])
        THEN call.out = Resolved(call.args[2])
        ELSE call.out.k = "err"

\* C30 (compareVersions is antisymmetric): compareVersions(a)(b) is the
\* negation of compareVersions(b)(a) for all version strings a and b.
C30_Antisymmetric ==
    call.op = "compareVersions both ways" =>
        call.out.v.v[1].v = -call.out.v.v[2].v

====
